---- MODULE Spec2Model ----
(***************************************************************************)
(* Credential vault codec of rssh-tunnel: crypto.rs (encrypt_password,     *)
(* decrypt_password, is_password_strong) and its caller in main.rs         *)
(* (get_encrypted_passwords, SshConfig::from_interactive_input).           *)
(*                                                                         *)
(* Text is modelled as Rust holds it: a sequence of UTF-8 bytes (0..255).  *)
(* The library calls are modelled by what they compute on those bytes:     *)
(* hex::encode/decode, String::from_utf8, str::split, the unpadded Base64  *)
(* of password-hash salts, GenericArray::from_slice's length assertion.    *)
(* Argon2 and ChaCha20-Poly1305 cannot be executed by a model checker;     *)
(* they are replaced by a keyed stream and a keyed checksum that keep the  *)
(* contract of the real primitives on the modelled inputs (32-byte key,    *)
(* 16-byte tag, a salt shorter than 8 bytes rejected, decryption inverse   *)
(* to encryption, tag dependent on key, nonce and every ciphertext byte).  *)
(***************************************************************************)
EXTENDS Integers, Sequences, FiniteSets, TLC

VARIABLES sealed, last, config

vars == <<sealed, last, config>>

(***************************************************************************)
(* Bytes and text                                                          *)
(***************************************************************************)
NONCE_SIZE == 12

KEY_SIZE == 32

TAG_SIZE == 16

SALT_BYTES == 16

MIN_SALT_LEN == 8

SALT_MIN_LENGTH == 4

SALT_MAX_LENGTH == 64

SEMICOLON == 59

min_length == 12

Ok(v) == [kind |-> "Ok", value |-> v]

Err(k) == [kind |-> k, value |-> <<>>]

\* A byte vector held as a tuple (Vec<u8>), element by element.
Vec(f) == f \o <<>>

RECURSIVE SumSeq(_, _)
SumSeq(s, i) == IF i > Len(s) THEN 0 ELSE s[i] + SumSeq(s, i + 1)

\* One bit of a byte, and the exclusive or of two bytes.
Bit(b, k) == (b \div (2 ^ k)) % 2

Xor(a, b) == SumSeq([k \in 1..8 |-> ((Bit(a, k - 1) + Bit(b, k - 1)) % 2) * (2 ^ (k - 1))], 1)

\* hex::encode: two lowercase hex digits per byte.
HexDigit(d) == IF d < 10 THEN 48 + d ELSE 87 + d

encode(bs) ==
    Vec([i \in 1..(2 * Len(bs)) |->
        HexDigit(IF i % 2 = 1 THEN bs[(i + 1) \div 2] \div 16 ELSE bs[i \div 2] % 16)])

\* hex::decode: an odd length or a character outside 0-9a-fA-F is FromHexError.
HexVal(c) ==
    IF c \in 48..57 THEN c - 48
    ELSE IF c \in 97..102 THEN c - 87
    ELSE IF c \in 65..70 THEN c - 55
    ELSE -1

decode(cs) ==
    IF Len(cs) % 2 = 1 THEN Err("HexError")
    ELSE IF \E i \in 1..Len(cs) : HexVal(cs[i]) = -1 THEN Err("HexError")
    ELSE Ok(Vec([i \in 1..(Len(cs) \div 2) |-> 16 * HexVal(cs[2 * i - 1]) + HexVal(cs[2 * i])]))

\* String::from_utf8: the well-formed byte sequences of UTF-8.
IsCont(bs, i) == i <= Len(bs) /\ bs[i] \in 128..191

Utf8Width(bs, i) ==
    LET b == bs[i] IN
    IF b < 128 THEN 1
    ELSE IF b \in 194..223 /\ IsCont(bs, i + 1) THEN 2
    ELSE IF b = 224 /\ i + 1 <= Len(bs) /\ bs[i + 1] \in 160..191 /\ IsCont(bs, i + 2) THEN 3
    ELSE IF b \in (225..236) \cup (238..239) /\ IsCont(bs, i + 1) /\ IsCont(bs, i + 2) THEN 3
    ELSE IF b = 237 /\ i + 1 <= Len(bs) /\ bs[i + 1] \in 128..159 /\ IsCont(bs, i + 2) THEN 3
    ELSE IF b = 240 /\ i + 1 <= Len(bs) /\ bs[i + 1] \in 144..191
            /\ IsCont(bs, i + 2) /\ IsCont(bs, i + 3) THEN 4
    ELSE IF b \in 241..243 /\ IsCont(bs, i + 1) /\ IsCont(bs, i + 2) /\ IsCont(bs, i + 3) THEN 4
    ELSE IF b = 244 /\ i + 1 <= Len(bs) /\ bs[i + 1] \in 128..143
            /\ IsCont(bs, i + 2) /\ IsCont(bs, i + 3) THEN 4
    ELSE 0

\* A byte outside 128..191 starts a character; each one must start a
\* well-formed sequence and every other byte must belong to one.
IsLead(bs, i) == bs[i] \notin 128..191

Utf8Valid(bs) ==
    \A i \in 1..Len(bs) :
        IF IsLead(bs, i) THEN Utf8Width(bs, i) # 0
        ELSE \E j \in {i - 3, i - 2, i - 1} :
                j >= 1 /\ IsLead(bs, j) /\ Utf8Width(bs, j) # 0 /\ j + Utf8Width(bs, j) > i

from_utf8(bs) == IF Utf8Valid(bs) THEN Ok(bs) ELSE Err("Utf8Error")

\* str::chars: the code points of a (valid) string, by the byte each starts at.
CodePoint(bs, i, w) ==
    IF w = 1 THEN bs[i]
    ELSE IF w = 2 THEN (bs[i] - 192) * 64 + (bs[i + 1] - 128)
    ELSE IF w = 3 THEN (bs[i] - 224) * 4096 + (bs[i + 1] - 128) * 64 + (bs[i + 2] - 128)
    ELSE (bs[i] - 240) * 262144 + (bs[i + 1] - 128) * 4096
            + (bs[i + 2] - 128) * 64 + (bs[i + 3] - 128)

CharStarts(bs) == {i \in 1..Len(bs) : IsLead(bs, i)}

CharAt(bs, i) == CodePoint(bs, i, Utf8Width(bs, i))

\* str::split(';'): one part more than there are delimiters.
Delims(s) == {i \in 1..Len(s) : s[i] = SEMICOLON}

RECURSIVE SplitFrom(_, _)
SplitFrom(s, i) ==
    LET after == {j \in Delims(s) : j >= i} IN
    IF after = {} THEN <<SubSeq(s, i, Len(s))>>
    ELSE LET j == CHOOSE k \in after : \A l \in after : k <= l
         IN <<SubSeq(s, i, j - 1)>> \o SplitFrom(s, j + 1)

split(s) == SplitFrom(s, 1)

(***************************************************************************)
(* password-hash: salts are unpadded standard Base64                       *)
(***************************************************************************)
B64Char(v) ==
    IF v < 26 THEN 65 + v
    ELSE IF v < 52 THEN 71 + v
    ELSE IF v < 62 THEN v - 4
    ELSE IF v = 62 THEN 43 ELSE 47

B64Val(c) ==
    IF c \in 65..90 THEN c - 65
    ELSE IF c \in 97..122 THEN c - 71
    ELSE IF c \in 48..57 THEN c + 4
    ELSE IF c = 43 THEN 62
    ELSE IF c = 47 THEN 63
    ELSE -1

\* Base64 without padding: three bytes to four characters; a last group of
\* one or two bytes gives two or three characters.
ByteOr0(bs, i) == IF i <= Len(bs) THEN bs[i] ELSE 0

B64Encode(bs) ==
    Vec([k \in 1..((4 * Len(bs) + 2) \div 3) |->
        LET g == 3 * ((k - 1) \div 4)
            r == (k - 1) % 4
        IN B64Char(IF r = 0 THEN ByteOr0(bs, g + 1) \div 4
                   ELSE IF r = 1 THEN (ByteOr0(bs, g + 1) % 4) * 16 + ByteOr0(bs, g + 2) \div 16
                   ELSE IF r = 2 THEN (ByteOr0(bs, g + 2) % 16) * 4 + ByteOr0(bs, g + 3) \div 64
                   ELSE ByteOr0(bs, g + 3) % 64)])

\* Salt::decode_b64: Base64 decoding rejects characters outside the alphabet,
\* an impossible length and a last character with unused bits set.
B64Decode(cs) ==
    IF \E i \in 1..Len(cs) : B64Val(cs[i]) = -1 THEN Err("B64Encoding")
    ELSE IF Len(cs) % 4 = 1 THEN Err("B64Encoding")
    ELSE IF Len(cs) % 4 = 2 /\ B64Val(cs[Len(cs)]) % 16 # 0 THEN Err("B64Encoding")
    ELSE IF Len(cs) % 4 = 3 /\ B64Val(cs[Len(cs)]) % 4 # 0 THEN Err("B64Encoding")
    ELSE Ok(Vec([i \in 1..((6 * Len(cs)) \div 8) |->
            LET g == 4 * ((i - 1) \div 3)
                r == (i - 1) % 3
            IN IF r = 0 THEN B64Val(cs[g + 1]) * 4 + B64Val(cs[g + 2]) \div 16
               ELSE IF r = 1 THEN (B64Val(cs[g + 2]) % 16) * 16 + B64Val(cs[g + 3]) \div 4
               ELSE (B64Val(cs[g + 3]) % 4) * 64 + B64Val(cs[g + 4])]))

\* SaltString::generate: 16 bytes of the random source, Base64 encoded.
SaltString_generate(rnd) == B64Encode(rnd)

\* SaltString::from_b64: 4 to 64 characters of [a-zA-Z0-9/+.-].
IsSaltChar(c) == c \in (97..122) \cup (65..90) \cup (48..57) \cup {47, 43, 46, 45}

SaltString_from_b64(s) ==
    IF Len(s) < SALT_MIN_LENGTH THEN Err("Argon2Error")
    ELSE IF Len(s) > SALT_MAX_LENGTH THEN Err("Argon2Error")
    ELSE IF \E i \in 1..Len(s) : ~IsSaltChar(s[i]) THEN Err("Argon2Error")
    ELSE Ok(s)

(***************************************************************************)
(* Argon2::default().hash_password: the salt string is Base64 decoded, a   *)
(* salt under 8 bytes is rejected, the output is 32 bytes. The mixing      *)
(* stands for Argon2id: each output byte depends on password and salt.     *)
(***************************************************************************)
RECURSIVE Fold(_, _, _)
Fold(s, i, m) == IF i > Len(s) THEN 0 ELSE s[i] + Fold(s, i + m, m)

Argon2Output(pw, saltBytes) ==
    Vec([i \in 1..KEY_SIZE |-> (Fold(pw, i, KEY_SIZE) + Fold(saltBytes, i, KEY_SIZE) + i) % 256])

\* hash_password deriving the key from the salt alone.
hash_password_salt_only(pw, salt) ==
    LET sb == B64Decode(salt) IN
    IF sb.kind # "Ok" THEN Err("Argon2Error")
    ELSE IF Len(sb.value) < MIN_SALT_LEN THEN Err("Argon2Error")
    ELSE Ok(Argon2Output(<<>>, sb.value))

hash_password(pw, salt) ==
    LET sb == B64Decode(salt) IN
    IF sb.kind # "Ok" THEN Err("Argon2Error")
    ELSE IF Len(sb.value) < MIN_SALT_LEN THEN Err("Argon2Error")
    ELSE Ok(Argon2Output(pw, sb.value))

(***************************************************************************)
(* ChaCha20Poly1305: ciphertext = plaintext under a keystream, followed by *)
(* a 16-byte tag over key, nonce and ciphertext; decrypt checks the tag    *)
(* before it releases any plaintext. Only called with a 32-byte key and a  *)
(* 12-byte nonce (from_slice asserts both lengths).                        *)
(***************************************************************************)
KeyStream(key, nonce, i) ==
    (key[((i - 1) % KEY_SIZE) + 1] + nonce[((i - 1) % NONCE_SIZE) + 1] + i) % 256

Tag(key, nonce, body) ==
    LET sum == SumSeq(body, 1) IN
    Vec([j \in 1..TAG_SIZE |->
        (key[j] + key[j + TAG_SIZE] + nonce[((j - 1) % NONCE_SIZE) + 1] + sum + j * Len(body)) % 256])

cipher_encrypt(key, nonce, plaintext) ==
    LET body == Vec([i \in 1..Len(plaintext) |-> (plaintext[i] + KeyStream(key, nonce, i)) % 256])
    IN Ok(body \o Tag(key, nonce, body))

\* cipher_decrypt returning the ciphertext body as it stands.
cipher_decrypt_raw(key, nonce, ciphertext) ==
    IF Len(ciphertext) < TAG_SIZE THEN Err("AeadError")
    ELSE LET n == Len(ciphertext) - TAG_SIZE
             body == SubSeq(ciphertext, 1, n)
             tag == SubSeq(ciphertext, n + 1, Len(ciphertext))
         IN IF tag # Tag(key, nonce, body) THEN Err("AeadError") ELSE Ok(body)

\* cipher_decrypt without the comparison of the tag.
cipher_decrypt_unchecked(key, nonce, ciphertext) ==
    IF Len(ciphertext) < TAG_SIZE THEN Err("AeadError")
    ELSE LET n == Len(ciphertext) - TAG_SIZE
             body == SubSeq(ciphertext, 1, n)
         IN Ok(Vec([i \in 1..n |-> (body[i] + 256 - KeyStream(key, nonce, i)) % 256]))

cipher_decrypt(key, nonce, ciphertext) ==
    IF Len(ciphertext) < TAG_SIZE THEN Err("AeadError")
    ELSE LET n == Len(ciphertext) - TAG_SIZE
             body == SubSeq(ciphertext, 1, n)
             tag == SubSeq(ciphertext, n + 1, Len(ciphertext))
         IN IF tag # Tag(key, nonce, body) THEN Err("AeadError")
            ELSE Ok(Vec([i \in 1..n |-> (body[i] + 256 - KeyStream(key, nonce, i)) % 256]))

(***************************************************************************)
(* crypto.rs                                                               *)
(***************************************************************************)
\* SealWith joining nonce and ciphertext without a delimiter.
SealWith_one_delimiter(master_password, password, salt, nonce_bytes) ==
    LET hashed == hash_password(master_password, salt)
    IN IF hashed.kind # "Ok" THEN hashed
       ELSE LET ciphertext == cipher_encrypt(hashed.value, nonce_bytes, password)
            IN Ok(encode(salt \o <<SEMICOLON>> \o encode(nonce_bytes) \o encode(ciphertext.value)))

\* encrypt_password from the key derivation on (lines 64 to 85), for a salt
\* string and a nonce already drawn.
SealWith(master_password, password, salt, nonce_bytes) ==
    LET hashed == hash_password(master_password, salt)
    IN IF hashed.kind # "Ok" THEN hashed
       ELSE IF Len(hashed.value) # KEY_SIZE THEN Err("Panic")
       ELSE LET ciphertext == cipher_encrypt(hashed.value, nonce_bytes, password)
            IN IF ciphertext.kind # "Ok" THEN ciphertext
               ELSE Ok(encode(salt \o <<SEMICOLON>> \o encode(nonce_bytes)
                               \o <<SEMICOLON>> \o encode(ciphertext.value)))

\* encrypt_password with a salt and a nonce fixed in the program.
encrypt_password_static(master_password, password, saltRnd, nonce_bytes) ==
    SealWith(master_password, password, SaltString_generate(Vec([i \in 1..SALT_BYTES |-> 0])),
             Vec([i \in 1..NONCE_SIZE |-> 0]))

\* encrypt_password, given the 16 and 12 bytes it draws from OsRng.
encrypt_password(master_password, password, saltRnd, nonce_bytes) ==
    SealWith(master_password, password, SaltString_generate(saltRnd), nonce_bytes)

\* The steps of decrypt_password after the three parts are split off.
OpenParts(master_password, parts) ==
    LET salt == SaltString_from_b64(parts[1])
        nonce_bytes == decode(parts[2])
        ciphertext == decode(parts[3])
    IN IF salt.kind # "Ok" THEN salt @@ [derived |-> FALSE]
       ELSE IF nonce_bytes.kind # "Ok" THEN nonce_bytes @@ [derived |-> FALSE]
       ELSE IF ciphertext.kind # "Ok" THEN ciphertext @@ [derived |-> FALSE]
       ELSE LET hashed == hash_password(master_password, salt.value)
            IN IF hashed.kind # "Ok" THEN hashed @@ [derived |-> TRUE]
               ELSE IF Len(hashed.value) # KEY_SIZE THEN Err("Panic") @@ [derived |-> TRUE]
               ELSE IF Len(nonce_bytes.value) # NONCE_SIZE THEN Err("Panic") @@ [derived |-> TRUE]
               ELSE LET plaintext == cipher_decrypt(hashed.value, nonce_bytes.value, ciphertext.value)
                    IN IF plaintext.kind # "Ok" THEN plaintext @@ [derived |-> TRUE]
                       ELSE from_utf8(plaintext.value) @@ [derived |-> TRUE]

\* decrypt_password accepting more than three parts.
decrypt_password_at_least_three(master_password, encrypted_data) ==
    LET decoded_data == decode(encrypted_data) IN
    IF decoded_data.kind # "Ok" THEN decoded_data @@ [derived |-> FALSE]
    ELSE LET decoded_data_str == from_utf8(decoded_data.value) IN
         IF decoded_data_str.kind # "Ok" THEN decoded_data_str @@ [derived |-> FALSE]
         ELSE LET parts == split(decoded_data_str.value) IN
              IF Len(parts) < 3 THEN Err("InvalidDataFormat") @@ [derived |-> FALSE]
              ELSE OpenParts(master_password, parts)

\* decrypt_password: kind is Ok or the CryptoError variant returned, or Panic
\* when the call aborts; derived tells whether the key derivation was run.
decrypt_password(master_password, encrypted_data) ==
    LET decoded_data == decode(encrypted_data) IN
    IF decoded_data.kind # "Ok" THEN decoded_data @@ [derived |-> FALSE]
    ELSE LET decoded_data_str == from_utf8(decoded_data.value) IN
         IF decoded_data_str.kind # "Ok" THEN decoded_data_str @@ [derived |-> FALSE]
         ELSE LET parts == split(decoded_data_str.value) IN
              IF Len(parts) # 3 THEN Err("InvalidDataFormat") @@ [derived |-> FALSE]
              ELSE OpenParts(master_password, parts)

\* char::is_uppercase, is_lowercase (code points below 256), is_ascii_digit,
\* is_ascii_punctuation.
is_uppercase(c) == c \in (65..90) \cup (192..214) \cup (216..222)

is_lowercase(c) == c \in (97..122) \cup {170, 181, 186} \cup (223..246) \cup (248..255)

is_ascii_digit(c) == c \in 48..57

is_ascii_punctuation(c) == c \in (33..47) \cup (58..64) \cup (91..96) \cup (123..126)

\* is_password_strong asking for more than min_length bytes.
is_password_strong_longer(password) ==
    /\ Len(password) > min_length
    /\ \E i \in CharStarts(password) : is_uppercase(CharAt(password, i))
    /\ \E i \in CharStarts(password) : is_lowercase(CharAt(password, i))
    /\ \E i \in CharStarts(password) : is_ascii_digit(CharAt(password, i))
    /\ \E i \in CharStarts(password) : is_ascii_punctuation(CharAt(password, i))

is_password_strong(password) ==
    LET has_uppercase == \E i \in CharStarts(password) : is_uppercase(CharAt(password, i))
        has_lowercase == \E i \in CharStarts(password) : is_lowercase(CharAt(password, i))
        has_digit == \E i \in CharStarts(password) : is_ascii_digit(CharAt(password, i))
        has_special == \E i \in CharStarts(password) : is_ascii_punctuation(CharAt(password, i))
    IN Len(password) >= min_length /\ has_uppercase /\ has_lowercase /\ has_digit /\ has_special

(***************************************************************************)
(* main.rs                                                                 *)
(***************************************************************************)
None == [some |-> FALSE, tok |-> <<>>]

Some(t) == [some |-> TRUE, tok |-> t]

Call(m, p, rnd, res) ==
    [m |-> m, p |-> p, salt |-> rnd[1], nonce |-> rnd[2], token |-> res.value,
     via |-> "get_encrypted_passwords"]

\* get_encrypted_passwords without the check of the master password.
get_encrypted_passwords_ungated(pj, pt, mp, r1, r2) ==
    LET e1 == encrypt_password(mp, pj, r1[1], r1[2])
        e2 == encrypt_password(mp, pt, r2[1], r2[2])
    IN [kind |-> "Ok", enc1 |-> Some(e1.value), enc2 |-> Some(e2.value),
        calls |-> <<Call(mp, pj, r1, e1), Call(mp, pt, r2, e2)>>]

\* get_encrypted_passwords for the three prompted strings and the random bytes
\* of its two encrypt_password calls: the calls it made and what it returned
\* (expect aborts the program when encrypt_password fails).
get_encrypted_passwords(pj, pt, mp, r1, r2) ==
    IF is_password_strong(mp)
    THEN LET e1 == encrypt_password(mp, pj, r1[1], r1[2])
             e2 == encrypt_password(mp, pt, r2[1], r2[2])
         IN IF e1.kind # "Ok"
            THEN [kind |-> "Panic", enc1 |-> None, enc2 |-> None, calls |-> <<>>]
            ELSE IF e2.kind # "Ok"
            THEN [kind |-> "Panic", enc1 |-> None, enc2 |-> None,
                  calls |-> <<Call(mp, pj, r1, e1)>>]
            ELSE [kind |-> "Ok", enc1 |-> Some(e1.value), enc2 |-> Some(e2.value),
                  calls |-> <<Call(mp, pj, r1, e1), Call(mp, pt, r2, e2)>>]
    ELSE [kind |-> "Ok", enc1 |-> None, enc2 |-> None, calls |-> <<>>]

(***************************************************************************)
(* Inputs                                                                  *)
(***************************************************************************)
MaxCalls == 2

CorrectPassphrase ==
    <<67, 111, 114, 114, 101, 99, 116, 45, 80, 97, 115, 115, 112, 104, 114, 97, 115, 101, 45, 49>>

WrongPassphrase == <<87, 114, 111, 110, 103, 45, 80, 97, 115, 115, 112, 104, 114, 97, 115, 101>>

Passphrases == {CorrectPassphrase, WrongPassphrase}

\* "s3cr3t" and "e-acute;" (a two-byte character and the delimiter).
Plaintexts == {<<115, 51, 99, 114, 51, 116>>, <<195, 169, 59>>}

\* Outputs of the random source: its 16 salt bytes and its 12 nonce bytes.
SaltDraws ==
    {[i \in 1..SALT_BYTES |-> 0],
     [i \in 1..SALT_BYTES |-> IF i = 1 THEN 251 ELSE IF i = 2 THEN 255 ELSE 13 * i + 3]}

NonceDraws ==
    {[i \in 1..NONCE_SIZE |-> 0],
     [i \in 1..NONCE_SIZE |-> IF i = 1 THEN 255 ELSE 21 * i]}

Draws == SaltDraws \X NonceDraws

\* The random source is a CSPRNG: the 28 bytes one call draws are not the 28
\* bytes an earlier call drew.
Drawn == {<<sealed[i].salt, sealed[i].nonce>> : i \in 1..Len(sealed)}

(***************************************************************************)
(* The codec in use: calls of encrypt_password, of decrypt_password on the *)
(* tokens returned, and of the profile set-up that stores two tokens.      *)
(***************************************************************************)
Init ==
    /\ sealed = <<>>
    /\ last = [op |-> "none"]
    /\ config = [enc1 |-> None, enc2 |-> None]

Seal(m, p, rnd) ==
    /\ Len(sealed) < MaxCalls
    /\ rnd \notin Drawn
    /\ LET res == encrypt_password(m, p, rnd[1], rnd[2]) IN
        /\ sealed' = IF res.kind = "Ok"
                     THEN Append(sealed, [m |-> m, p |-> p, salt |-> rnd[1], nonce |-> rnd[2],
                                          token |-> res.value, via |-> "encrypt_password"])
                     ELSE sealed
        /\ last' = [op |-> "encrypt_password", m |-> m, p |-> p, res |-> res]
    /\ UNCHANGED config

Open(i, m) ==
    /\ i \in 1..Len(sealed)
    /\ last' = [op |-> "decrypt_password", input |-> "sealed", idx |-> i, m |-> m,
                token |-> sealed[i].token, res |-> decrypt_password(m, sealed[i].token)]
    /\ UNCHANGED <<sealed, config>>

\* SshConfig::from_interactive_input from the "Save password?" prompt on.
SavePasswords(confirm, pj, pt, mp, r1, r2) ==
    /\ Len(sealed) + 2 <= MaxCalls
    /\ r1 \notin Drawn /\ r2 \notin Drawn /\ r1 # r2
    /\ LET out == IF confirm THEN get_encrypted_passwords(pj, pt, mp, r1, r2)
                  ELSE [kind |-> "Ok", enc1 |-> None, enc2 |-> None, calls |-> <<>>]
       IN /\ sealed' = sealed \o out.calls
          /\ config' = IF out.kind = "Ok" THEN [enc1 |-> out.enc1, enc2 |-> out.enc2] ELSE config
          /\ last' = [op |-> "from_interactive_input", confirm |-> confirm, mp |-> mp,
                      kind |-> out.kind, calls |-> Len(out.calls),
                      enc1 |-> out.enc1, enc2 |-> out.enc2]

Next ==
    \/ \E m \in Passphrases, p \in Plaintexts, rnd \in Draws : Seal(m, p, rnd)
    \/ \E i \in 1..MaxCalls, m \in Passphrases : Open(i, m)
    \/ \E confirm \in BOOLEAN, pj \in Plaintexts, pt \in Plaintexts, mp \in Passphrases,
          r1 \in Draws, r2 \in Draws : SavePasswords(confirm, pj, pt, mp, r1, r2)

Spec == Init /\ [][Next]_vars


(***************************************************************************)
(* A sealed token altered before it is opened with the passphrase that     *)
(* sealed it: one byte of the ciphertext-and-tag replaced and the token    *)
(* encoded again, or bits of one character of the token text flipped.      *)
(***************************************************************************)
ByteDeltas == {1, 128, 255}

FlipMasks == {1, 2, 4, 8, 16, 32, 64, 80, 81, 127}

TokenParts(token) == split(decode(token).value)

CiphertextOf(token) == decode(TokenParts(token)[3]).value

\* The characters of the token that spell its third part.
CiphertextPortion(token) == (Len(token) - 2 * Len(TokenParts(token)[3]) + 1)..Len(token)

ReplaceCiphertextByte(token, k, d) ==
    LET parts == TokenParts(token)
        ct == CiphertextOf(token)
    IN encode(parts[1] \o <<SEMICOLON>> \o parts[2] \o <<SEMICOLON>>
              \o encode([ct EXCEPT ![k] = (@ + d) % 256]))

FlipTokenByte(token, pos, mask) == [token EXCEPT ![pos] = Xor(@, mask)]

Alterations(token) ==
    {[op |-> "input", how |-> "ciphertext_byte", pos |-> k, d |-> d] :
        k \in 1..Len(CiphertextOf(token)), d \in ByteDeltas}
    \cup {[op |-> "input", how |-> "token_byte", pos |-> pos, d |-> mask] :
        pos \in CiphertextPortion(token), mask \in FlipMasks}

InitTamper ==
    \E m \in Passphrases, p \in Plaintexts, rnd \in Draws :
        LET res == encrypt_password(m, p, rnd[1], rnd[2]) IN
        /\ res.kind = "Ok"
        /\ sealed = <<[m |-> m, p |-> p, salt |-> rnd[1], nonce |-> rnd[2],
                       token |-> res.value, via |-> "encrypt_password"]>>
        /\ config = [enc1 |-> None, enc2 |-> None]
        /\ last \in Alterations(res.value)

OpenAltered(token) ==
    /\ last' = [op |-> "decrypt_password", input |-> last.how, idx |-> 1, m |-> sealed[1].m,
                pos |-> last.pos, d |-> last.d, token |-> token,
                res |-> decrypt_password(sealed[1].m, token)]
    /\ UNCHANGED <<sealed, config>>

OpenTampered ==
    /\ last.op = "input" /\ last.how = "ciphertext_byte"
    /\ OpenAltered(ReplaceCiphertextByte(sealed[1].token, last.pos, last.d))

OpenFlipped ==
    /\ last.op = "input" /\ last.how = "token_byte"
    /\ OpenAltered(FlipTokenByte(sealed[1].token, last.pos, last.d))

NextTamper == OpenTampered \/ OpenFlipped

SpecTamper == InitTamper /\ [][NextTamper]_vars

(***************************************************************************)
(* decrypt_password as a function of any passphrase and any string.        *)
(***************************************************************************)
Upper(cs) == Vec([i \in 1..Len(cs) |-> IF cs[i] \in 97..102 THEN cs[i] - 32 ELSE cs[i]])

Rep(c, n) == Vec([i \in 1..n |-> c])

GoodSaltRnd == [i \in 1..SALT_BYTES |-> IF i = 1 THEN 251 ELSE IF i = 2 THEN 255 ELSE 13 * i + 3]

GoodNonce == [i \in 1..NONCE_SIZE |-> IF i = 1 THEN 255 ELSE 21 * i]

Secret == <<115, 51, 99, 114, 51, 116>>

GoodToken == encrypt_password(CorrectPassphrase, Secret, GoodSaltRnd, GoodNonce).value

\* Part 1: accepted, rejected by SaltString::from_b64 ("abc", "ab$defgh",
\* 65 characters), or accepted there and rejected by the key derivation
\* ("abcd" is 3 bytes, "ab.defghijkl" is not Base64).
SaltParts ==
    {[shape |-> "valid", s |-> TokenParts(GoodToken)[1]],
     [shape |-> "malformed", s |-> <<97, 98, 99>>],
     [shape |-> "malformed", s |-> <<97, 98, 36, 100, 101, 102, 103, 104>>],
     [shape |-> "malformed", s |-> Rep(65, SALT_MAX_LENGTH + 1)],
     [shape |-> "kdf_rejects", s |-> <<97, 98, 99, 100>>],
     [shape |-> "kdf_rejects", s |-> <<97, 98, 46, 100, 101, 102, 103, 104, 105, 106, 107, 108>>]}

\* Part 2: the hex of 12 bytes (either case), of 1, 13 or 0 bytes, or no hex.
NonceParts ==
    {[shape |-> "valid", s |-> TokenParts(GoodToken)[2]],
     [shape |-> "valid", s |-> Upper(TokenParts(GoodToken)[2])],
     [shape |-> "wrong_length", s |-> <<48, 48>>],
     [shape |-> "wrong_length", s |-> encode(Rep(7, NONCE_SIZE + 1))],
     [shape |-> "wrong_length", s |-> <<>>],
     [shape |-> "not_hex", s |-> <<48, 103>>],
     [shape |-> "not_hex", s |-> <<97, 98, 99>>]}

\* Part 3: the sealed ciphertext (either case), another 22 bytes, 1 byte, no hex.
CiphertextParts ==
    {[shape |-> "valid", s |-> TokenParts(GoodToken)[3]],
     [shape |-> "valid", s |-> Upper(TokenParts(GoodToken)[3])],
     [shape |-> "forged", s |-> encode(Rep(0, 6 + TAG_SIZE))],
     [shape |-> "forged", s |-> <<48, 48>>],
     [shape |-> "not_hex", s |-> <<122, 122>>]}

ThreeParts ==
    {[shape |-> "three_parts", salt |-> a.shape, nonce |-> n.shape, ciphertext |-> c.shape,
      token |-> encode(a.s \o <<SEMICOLON>> \o n.s \o <<SEMICOLON>> \o c.s)] :
        a \in SaltParts, n \in NonceParts, c \in CiphertextParts}

Shaped(shape, token) ==
    [shape |-> shape, salt |-> "none", nonce |-> "none", ciphertext |-> "none", token |-> token]

\* "not-hex!!", "abc", the hex of bytes that are no UTF-8, of "", "a;b" and
\* of a sealed text with a fourth part, and a sealed token in upper case.
OtherTokens ==
    {Shaped("not_hex", <<110, 111, 116, 45, 104, 101, 120, 33, 33>>),
     Shaped("not_hex", <<97, 98, 99>>),
     Shaped("not_hex", SubSeq(GoodToken, 1, Len(GoodToken) - 1)),
     Shaped("not_utf8", encode(<<255>>)),
     Shaped("not_utf8", encode(<<97, 59, 195, 59, 98>>)),
     Shaped("not_three_parts", encode(<<>>)),
     Shaped("not_three_parts", encode(<<97, 59, 98>>)),
     Shaped("not_three_parts", encode(decode(GoodToken).value \o <<SEMICOLON, 48, 48>>)),
     Shaped("not_three_parts", encode(<<SEMICOLON, SEMICOLON, SEMICOLON>>)),
     Shaped("upper_case", Upper(GoodToken))}

Forged == ThreeParts \cup OtherTokens

InitOpen ==
    /\ sealed = <<>>
    /\ config = [enc1 |-> None, enc2 |-> None]
    /\ last \in {[op |-> "input", m |-> m, forged |-> f] : m \in Passphrases, f \in Forged}

OpenForged ==
    /\ last.op = "input"
    /\ last' = [op |-> "decrypt_password", input |-> "forged", m |-> last.m,
                forged |-> last.forged, token |-> last.forged.token,
                res |-> decrypt_password(last.m, last.forged.token)]
    /\ UNCHANGED <<sealed, config>>

NextOpen == OpenForged

SpecOpen == InitOpen /\ [][NextOpen]_vars


(***************************************************************************)
(* is_password_strong as a function of any candidate string.  A candidate  *)
(* is put together from at most one character of each kind and a filler,   *)
(* so what it contains is known from how it was built.                     *)
(***************************************************************************)
\* Nothing, "A" or "E-acute" (U+00C9); nothing or "a"; nothing, "1" or
\* superscript two (U+00B2, a digit outside ASCII); nothing, "!" or inverted
\* "!" (U+00A1, punctuation outside ASCII).
UpperChoices == {<<>>, <<65>>, <<195, 137>>}

LowerChoices == {<<>>, <<97>>}

DigitChoices == {<<>>, <<49>>, <<194, 178>>}

PunctChoices == {<<>>, <<33>>, <<194, 161>>}

\* A space, or "e-acute" (U+00E9): a lowercase letter of two bytes.
Fillers == {<<32>>, <<195, 169>>}

FillerCounts == {0, 3, 4, 7, 8, 9, 12}

RECURSIVE Repeat(_, _)
Repeat(cs, n) == IF n = 0 THEN <<>> ELSE cs \o Repeat(cs, n - 1)

Built ==
    {[text |-> u \o l \o d \o q \o Repeat(f, n),
      upper |-> u # <<>>,
      lower |-> l # <<>> \/ (f = <<195, 169>> /\ n > 0),
      digit |-> d = <<49>>,
      punct |-> q = <<33>>,
      bytes |-> Len(u) + Len(l) + Len(d) + Len(q) + n * Len(f)] :
        u \in UpperChoices, l \in LowerChoices, d \in DigitChoices, q \in PunctChoices,
        f \in Fillers, n \in FillerCounts}

StrongP_ssword123 ==
    <<83, 116, 114, 111, 110, 103, 80, 64, 115, 115, 119, 111, 114, 100, 49, 50, 51>>

weak == <<119, 101, 97, 107>>

alllowercase123 == <<97, 108, 108, 108, 111, 119, 101, 114, 99, 97, 115, 101, 49, 50, 51, 33>>

ALLUPPERCASE123 == <<65, 76, 76, 85, 80, 80, 69, 82, 67, 65, 83, 69, 49, 50, 51, 33>>

NoDigitsHere == <<78, 111, 68, 105, 103, 105, 116, 115, 72, 101, 114, 101, 33, 33>>

Named(text, upper, lower, digit, punct) ==
    [text |-> text, upper |-> upper, lower |-> lower, digit |-> digit, punct |-> punct,
     bytes |-> Len(text)]

Examples ==
    {Named(StrongP_ssword123, TRUE, TRUE, TRUE, TRUE),
     Named(weak, FALSE, TRUE, FALSE, FALSE),
     Named(alllowercase123, FALSE, TRUE, TRUE, TRUE),
     Named(ALLUPPERCASE123, TRUE, FALSE, TRUE, TRUE),
     Named(NoDigitsHere, TRUE, TRUE, FALSE, TRUE),
     Named(CorrectPassphrase, TRUE, TRUE, TRUE, TRUE),
     Named(WrongPassphrase, TRUE, TRUE, FALSE, TRUE)}

Candidates == Built \cup Examples

InitPolicy ==
    /\ sealed = <<>>
    /\ config = [enc1 |-> None, enc2 |-> None]
    /\ last \in {[op |-> "input", candidate |-> c] : c \in Candidates}

CheckStrength ==
    /\ last.op = "input"
    /\ last' = [op |-> "is_password_strong", candidate |-> last.candidate,
                res |-> is_password_strong(last.candidate.text)]
    /\ UNCHANGED <<sealed, config>>

NextPolicy == CheckStrength

SpecPolicy == InitPolicy /\ [][NextPolicy]_vars


(***************************************************************************)
(* Properties                                                              *)
(***************************************************************************)
Opened(input) == last.op = "decrypt_password" /\ last.input = input

FormatKinds == {"HexError", "Utf8Error", "InvalidDataFormat"}

\* C1: opening a sealed token with the passphrase that sealed it succeeds and
\* returns exactly the plaintext that was sealed, whatever salt and nonce
\* the seal drew.
RoundTrip ==
    (Opened("sealed") /\ last.m = sealed[last.idx].m)
        => (last.res.kind = "Ok" /\ last.res.value = sealed[last.idx].p)

RoundTripDone ==
    /\ Opened("sealed") /\ last.m = sealed[last.idx].m
    /\ sealed[last.idx].p = <<195, 169, 59>>
    /\ sealed[last.idx].nonce[1] = 255
    /\ last.res.kind = "Ok"

\* C2: opening a sealed token with another passphrase than the one that
\* sealed it fails with AeadError: no plaintext, no format or derivation error.
WrongKeyRejected ==
    (Opened("sealed") /\ last.m # sealed[last.idx].m) => last.res.kind = "AeadError"

WrongKeyTried ==
    /\ Opened("sealed") /\ last.m = WrongPassphrase
    /\ sealed[last.idx].m = CorrectPassphrase
    /\ last.res.kind = "AeadError"

\* C3 as stated: after any single byte in the ciphertext portion of a sealed
\* token is changed, opening it with the right passphrase fails with AeadError.
TamperAlwaysAuthError ==
    (Opened("ciphertext_byte") \/ Opened("token_byte")) => last.res.kind = "AeadError"

\* C3 as amended: a changed byte of the ciphertext-and-tag fails with AeadError;
\* a changed character of the token text in its ciphertext portion fails with
\* AeadError or with a format error, or (the ciphertext it spells being the
\* same) succeeds with the plaintext that was sealed; no other plaintext is
\* ever returned.
TamperNeverCorrupts ==
    /\ Opened("ciphertext_byte") => last.res.kind = "AeadError"
    /\ Opened("token_byte") =>
          \/ last.res.kind \in {"AeadError"} \cup FormatKinds
          \/ /\ last.res.kind = "Ok"
             /\ last.res.value = sealed[1].p
             /\ CiphertextOf(last.token) = CiphertextOf(sealed[1].token)

FlipAccepted ==
    /\ Opened("token_byte") /\ last.token # sealed[1].token
    /\ last.res.kind = "Ok"

\* C4: decrypt_password returns a plaintext or one of the CryptoError variants
\* for every passphrase and every string; it never aborts.
TypedFailuresOnly ==
    Opened("forged") =>
        last.res.kind \in {"Ok", "Argon2Error", "HexError", "Utf8Error", "AeadError",
                           "InvalidDataFormat"}

\* C5: any two calls of encrypt_password with the same passphrase and the
\* same plaintext return different tokens.
FreshTokens ==
    \A i, j \in 1..Len(sealed) :
        (i # j /\ sealed[i].m = sealed[j].m /\ sealed[i].p = sealed[j].p)
            => sealed[i].token # sealed[j].token

SameInputsSealedTwice ==
    \E i, j \in 1..Len(sealed) :
        /\ i # j /\ sealed[i].m = sealed[j].m /\ sealed[i].p = sealed[j].p
        /\ sealed[i].salt = sealed[j].salt /\ sealed[i].nonce # sealed[j].nonce

\* C6: a string that is no hex fails with HexError, one whose bytes are no
\* UTF-8 with Utf8Error, one that does not split into exactly three parts
\* with InvalidDataFormat; each before the key derivation is run, and the
\* same for every passphrase.
MalformedRejectedEarly ==
    Opened("forged") =>
        LET f == last.forged IN
        /\ f.shape = "not_hex" => last.res.kind = "HexError"
        /\ f.shape = "not_utf8" => last.res.kind = "Utf8Error"
        /\ f.shape = "not_three_parts" => last.res.kind = "InvalidDataFormat"
        /\ f.shape \in {"not_hex", "not_utf8", "not_three_parts"} =>
              /\ ~last.res.derived
              /\ \A m \in Passphrases : decrypt_password(m, f.token) = last.res

FourPartsRejected ==
    /\ Opened("forged") /\ last.forged.shape = "not_three_parts"
    /\ Len(last.token) > Len(GoodToken)
    /\ last.res.kind = "InvalidDataFormat"

\* C7: a token of three parts whose first part is no valid salt encoding
\* fails with a format error, not with the variant of a failed key derivation.
MalformedSaltIsFormatError ==
    (Opened("forged") /\ last.forged.shape = "three_parts" /\ last.forged.salt = "malformed")
        => (last.res.kind \in FormatKinds /\ last.res.kind # "Argon2Error")

\* C8: is_password_strong is true exactly for the candidates of at least 12
\* bytes with an uppercase letter, a lowercase letter, an ASCII digit and an
\* ASCII punctuation character: true for "StrongP@ssword123", false for
\* "weak", "alllowercase123!", "ALLUPPERCASE123!" and "NoDigitsHere!!".
StrengthPredicate ==
    last.op = "is_password_strong" =>
        LET c == last.candidate IN
        /\ last.res = (c.bytes >= 12 /\ c.upper /\ c.lower /\ c.digit /\ c.punct)
        /\ c.text = StrongP_ssword123 => last.res
        /\ c.text \in {weak, alllowercase123, ALLUPPERCASE123, NoDigitsHere} => ~last.res

\* "Aa1!" and four "e-acute": 12 bytes in 8 characters.
StrongAtTwelveBytes ==
    /\ last.op = "is_password_strong"
    /\ last.candidate.text = <<65, 97, 49, 33, 195, 169, 195, 169, 195, 169, 195, 169>>
    /\ last.res

\* C9: every token returned by encrypt_password is hex of a text with exactly
\* two delimiters: a salt the parser accepts, the hex of the 12 nonce bytes
\* and the hex of a ciphertext 16 bytes longer than the plaintext; opening it
\* unmodified, with any passphrase, never fails with a format error.
TokenWellFormed ==
    /\ \A i \in 1..Len(sealed) :
          LET text == decode(sealed[i].token) IN
          /\ text.kind = "Ok"
          /\ from_utf8(text.value).kind = "Ok"
          /\ Cardinality(Delims(text.value)) = 2
          /\ LET parts == split(text.value) IN
             /\ Len(parts) = 3
             /\ SaltString_from_b64(parts[1]).kind = "Ok"
             /\ decode(parts[2]) = Ok(sealed[i].nonce) /\ Len(parts[2]) = 2 * 12
             /\ decode(parts[3]).kind = "Ok"
             /\ Len(decode(parts[3]).value) = Len(sealed[i].p) + 16
    /\ Opened("sealed") => last.res.kind \in {"Ok", "AeadError"}

SealedTokenOpened ==
    /\ Opened("sealed")
    /\ sealed[last.idx].p = <<195, 169, 59>>
    /\ sealed[last.idx].salt[1] = 251
    /\ last.res.kind = "AeadError"

\* C10: get_encrypted_passwords calls encrypt_password only with a strong
\* master passphrase; with one that is not strong it makes no call and
\* returns (None, None); enc1 and enc2 are both present or both absent.
StrongExamples ==
    {c.text : c \in {e \in Examples : e.bytes >= 12 /\ e.upper /\ e.lower /\ e.digit /\ e.punct}}

StrengthGate ==
    /\ \A i \in 1..Len(sealed) :
          sealed[i].via = "get_encrypted_passwords" => sealed[i].m \in StrongExamples
    /\ (last.op = "from_interactive_input" /\ last.confirm /\ last.mp \notin StrongExamples)
          => (last.calls = 0 /\ last.kind = "Ok" /\ last.enc1 = None /\ last.enc2 = None)
    /\ last.op = "from_interactive_input" => last.enc1.some = last.enc2.some
    /\ config.enc1.some = config.enc2.some

BothStored ==
    /\ last.op = "from_interactive_input" /\ last.confirm /\ last.calls = 2
    /\ config.enc1.some /\ config.enc2.some
    /\ config.enc1.tok = sealed[1].token /\ config.enc2.tok = sealed[2].token


====
